---- MODULE Spec2Model ----
(***************************************************************************)
(* A model of the package.json manager extension: the dependency graph     *)
(* builder (DependencyService), the registry client and the graph panel's  *)
(* detail lookup, and the custom editor's document synchronisation.        *)
(***************************************************************************)
EXTENDS Integers, Sequences, FiniteSets, TLC

(***************************************************************************)
(* Bounds of the model.                                                    *)
(***************************************************************************)
\* maxDepth is drawn from 1..MaxDepthBound
MaxDepthBound == 3
\* number of builds of the same project the refreshing panel runs
MaxBuilds == 2
\* number of getPackageDetails messages the graph view sends
MaxRequests == 2
\* number of events (form change, text edit, save, deletion) of one editor
MaxEvents == 3
\* number of tabs of one editor group
MaxTabs == 2

\* package names that manifests may declare
Names == {"a", "b", "c", "d"}
\* Object.entries order of a dependency map (a fixed key order)
NameOrder == <<"a", "b", "c", "d">>
\* a field that is absent from a parsed manifest
Undefined == "undefined"

VARIABLES
    \* ---- inputs of generateDependencyGraph
    rootFile,            \* the project's package.json on disk
    maxDepth,            \* options.maxDepth
    nodeModulesExists,   \* whether <project>/node_modules exists
    installed,           \* node_modules/<name>/package.json, as observed
    \* ---- state of one generateDependencyGraph call
    pc,                  \* position of generateDependencyGraph
    nodes,               \* nodes: DependencyNode[]
    links,               \* links: DependencyLink[]
    processedPackages,   \* processedPackages: Set<string>
    task,                \* the pending callback of each registered entry
    expansions,          \* how often each name's nested manifest was processed
    \* ---- the refreshing panel
    builds,              \* number of the running build
    previous,            \* node and link sets of the build before
    \* ---- the graph view (dependencyGraph.js)
    selectedType,        \* the value of the dependency-type select
    linkOpacity,         \* the opacity style of each link element, in percent
    nodeOpacity,         \* the opacity style of each node element, in percent
    \* ---- the graph panel's detail lookups
    localFiles,          \* node_modules/<name>/package.json of the panel's project
    requests,            \* the getPackageDetails messages being handled
    posted,              \* panel.webview.postMessage calls, in order
    \* ---- the custom editor of one package.json
    diskFile,            \* the file on disk
    docText,             \* the text of the host's TextDocument
    pendingSends,        \* sendPackageJsonToWebview calls awaiting their read
    toView,              \* messages posted to the editor view, not yet received
    toHost,              \* updatePackageJson payloads posted by the view, not yet handled
    viewLoaded,          \* the view's DOMContentLoaded has run
    viewPackageJson,     \* the view's packageJson variable
    viewError,           \* the view shows an error
    events,              \* number of user and file events so far
    typed,               \* the value the user last gave each form field, if any
    \* ---- one manifest object written as text and read back
    manifest,            \* the in-memory object
    written,             \* the characters of the text written for it
    reparsed,            \* what JSON.parse makes of the text
    jsonStage,           \* "object", "written" or "parsed"
    \* ---- the window's editor tabs
    tabGroups,           \* vscode.window.tabGroups.all: each group's tabs and active tab
    activeGroup,         \* the index of the focused group, 0 when nothing is open
    lastCommand,         \* what happened last: "open", "focus" or "toggle"
    \* ---- the user's settings
    configuredDepth,     \* the value of packageJsonManager.maxDependencyDepth
    \* ---- the extension host's command registry and the editor view's router
    active,              \* activate() has run and deactivate() has not
    providerRegistered,  \* the custom editor provider is registered
    commands,            \* the command ids registered with vscode.commands
    editorOpen,          \* a custom editor has been resolved and its router set up
    routerInbox,         \* messages posted by the editor view, not yet handled
    executed,            \* the executeCommand calls of the router, with their outcome
    \* ---- one call of DependencyService.findCircularDependencies
    graphData,           \* the argument: node ids in order, and (source, target) links
    circles,             \* the returned chains
    cyclesStage,         \* "idle", "given" or "returned"
    \* ---- the dependency graph panels over time (DependencyGraphPanel)
    currentPanel,        \* DependencyGraphPanel.currentPanel: a panel's number, 0 when undefined
    panelCount,          \* how many panels have been created
    packageJsonUri,      \* this.packageJsonUri of each panel
    html,                \* panel.webview.html of each panel
    disposed,            \* whether each panel's webview panel has been disposed
    inflight,            \* the update and getPackageDetails calls awaiting their result
    lateWrites,          \* the writes made to a webview after its disposal
    jobsStarted,         \* number of calls started so far
    \* ---- the graph view's package info panel (dependencyGraph.js)
    selectedName,        \* the name of the node clicked last, "none" before any click
    infoShown,           \* whose details #package-info-content shows, or "loading"
    delivered            \* how many of the posted messages the view has received

graphVars == <<rootFile, maxDepth, nodeModulesExists, installed, pc, nodes,
               links, processedPackages, task, expansions, builds, previous>>

detailVars == <<localFiles, requests, posted>>

editorVars == <<diskFile, docText, pendingSends, toView, toHost, viewLoaded,
                viewPackageJson, viewError, events, typed>>

jsonVars == <<manifest, written, reparsed, jsonStage>>

graphViewVars == <<selectedType, linkOpacity, nodeOpacity>>

tabVars == <<tabGroups, activeGroup, lastCommand>>

configVars == <<configuredDepth>>

commandsVars == <<active, providerRegistered, commands, editorOpen, routerInbox, executed>>

cyclesVars == <<graphData, circles, cyclesStage>>

lifecycleVars == <<currentPanel, panelCount, packageJsonUri, html, disposed, inflight, lateWrites, jobsStarted>>

infoVars == <<selectedName, infoShown, delivered>>

\* what the actions of one component leave alone
notPanel == <<detailVars, editorVars, jsonVars, tabVars, configVars, commandsVars, cyclesVars, lifecycleVars, infoVars>>
notGraph == <<graphViewVars, notPanel>>
notDetails == <<graphVars, graphViewVars, editorVars, jsonVars, tabVars, configVars, commandsVars, cyclesVars, lifecycleVars, infoVars>>
notEditor == <<graphVars, graphViewVars, detailVars, jsonVars, tabVars, configVars, commandsVars, cyclesVars, lifecycleVars, infoVars>>
notJson == <<graphVars, graphViewVars, detailVars, editorVars, tabVars, configVars, commandsVars, cyclesVars, lifecycleVars, infoVars>>
notTabs == <<graphVars, graphViewVars, detailVars, editorVars, jsonVars, configVars, commandsVars, cyclesVars, lifecycleVars, infoVars>>
notConfig == <<graphVars, graphViewVars, detailVars, editorVars, jsonVars, tabVars, commandsVars, cyclesVars, lifecycleVars, infoVars>>
notCommands == <<graphVars, graphViewVars, detailVars, editorVars, jsonVars, tabVars, configVars, cyclesVars, lifecycleVars, infoVars>>
notCycles == <<graphVars, graphViewVars, detailVars, editorVars, jsonVars, tabVars, configVars, commandsVars, lifecycleVars, infoVars>>
notLifecycle == <<graphVars, graphViewVars, detailVars, editorVars, jsonVars, tabVars, configVars, commandsVars, cyclesVars, infoVars>>
notInfo == <<graphVars, graphViewVars, detailVars, editorVars, jsonVars, tabVars, configVars, commandsVars, cyclesVars, lifecycleVars>>
notDetailsNorInfo == <<graphVars, graphViewVars, editorVars, jsonVars, tabVars, configVars, commandsVars, cyclesVars, lifecycleVars>>

vars == <<graphVars, graphViewVars, detailVars, editorVars, jsonVars, tabVars,
          configVars,
          commandsVars,
          cyclesVars,
          lifecycleVars,
          infoVars>>

(***************************************************************************)
(* Manifests.                                                              *)
(***************************************************************************)
\* A dependency map of a manifest: absent, or a set of declared names.  The
\* version range a manifest declares is carried as a token naming the
\* declaring manifest, so two manifests never declare equal ranges.
NoMap == [present |-> FALSE, names |-> {}]
MapOf(S) == [present |-> TRUE, names |-> S]

\* The maps of the project's manifest: at most two direct names in all, at
\* most one of them declared under devDependencies.
DirectMaps ==
    {dv \in ({NoMap} \cup {MapOf(S) : S \in SUBSET Names})
            \X ({NoMap} \cup {MapOf(S) : S \in SUBSET Names}) :
        /\ Cardinality(dv[1].names \cup dv[2].names) <= 2
        /\ Cardinality(dv[2].names) <= 1}

\* The dependencies map of an installed package: at most one name.
NestedMaps ==
    {NoMap} \cup {MapOf(S) : S \in {T \in SUBSET Names : Cardinality(T) <= 1}}

\* The project's package.json: unreadable, anonymous, or named "a" (a name
\* that dependencies may also carry).
RootFiles ==
    {[readable |-> FALSE, name |-> Undefined, version |-> Undefined,
      dependencies |-> NoMap, devDependencies |-> NoMap]}
    \cup
    {[readable |-> TRUE, name |-> nv[1], version |-> nv[2],
      dependencies |-> dv[1], devDependencies |-> dv[2]] :
        nv \in {<<Undefined, Undefined>>, <<"a", "1.0.0">>},
        dv \in DirectMaps}

\* node_modules/<name>/package.json: not looked at yet, absent, present but
\* failing to read or parse, or a manifest with an optional dependencies map
UnknownFile == [state |-> "unknown", dependencies |-> NoMap]
AbsentFile == [state |-> "absent", dependencies |-> NoMap]
UnreadableFile == [state |-> "unreadable", dependencies |-> NoMap]
ManifestFiles == {[state |-> "manifest", dependencies |-> d] : d \in NestedMaps}
ObservedFiles == {AbsentFile, UnreadableFile} \cup ManifestFiles

\* Object.entries(dependencies), in key order
Entries(S) == SelectSeq(NameOrder, LAMBDA n : n \in S)

(***************************************************************************)
(* DependencyService.generateDependencyGraph                               *)
(***************************************************************************)
IncludeDev == TRUE

IdleTask == [stage |-> "idle", depth |-> 0]

\* const rootNodeId = packageJson.name ?? 'current-package'
RootNodeId ==
    IF rootFile.name = Undefined THEN "current-package" ELSE rootFile.name

RootNodeMistyped ==
    [id |-> RootNodeId, name |-> RootNodeId, version |-> "0.0.0",
     type |-> "dependency"]

RootNode ==
    [id |-> RootNodeId,
     name |-> IF rootFile.name = Undefined THEN "Current Package" ELSE rootFile.name,
     version |-> IF rootFile.version = Undefined THEN "0.0.0" ELSE rootFile.version,
     type |-> "root"]

\* links.some(link => link.source === sourceNodeId && link.target === nodeId)
HasLink(ls, source, target) ==
    \E i \in 1..Len(ls) : ls[i].source = source /\ ls[i].target = target

NotYetProcessed(g, name) == name \notin g.processedPackages

NeverProcessed(g, name) == FALSE

\* processedPackages.has(nodeId)
AlreadyProcessed(g, name) == name \in g.processedPackages

\* The callback of processPackageDependencies for one entry, up to its first
\* await: g is the record of the arrays, the set and the pending callbacks.
ProcessEntry(g, name, dependencyType, sourceNodeId, depth) ==
    IF AlreadyProcessed(g, name)
    THEN IF HasLink(g.links, sourceNodeId, name)
         THEN g
         ELSE [g EXCEPT !.links = Append(@, [source |-> sourceNodeId,
                                             target |-> name,
                                             type |-> dependencyType])]
    ELSE [g EXCEPT
            !.processedPackages = @ \cup {name},
            !.nodes = Append(@, [id |-> name, name |-> name,
                                 version |-> sourceNodeId,
                                 type |-> dependencyType]),
            !.links = Append(@, [source |-> sourceNodeId, target |-> name,
                                 type |-> dependencyType]),
            !.task = [@ EXCEPT ![name] = [stage |-> "exists", depth |-> depth]]]

RECURSIVE MapEntries(_, _, _, _, _)
MapEntries(g, entries, dependencyType, sourceNodeId, depth) ==
    IF entries = <<>> THEN g
    ELSE MapEntries(ProcessEntry(g, Head(entries), dependencyType, sourceNodeId, depth),
                    Tail(entries), dependencyType, sourceNodeId, depth)

DepthExceededOffByOne(depth) == depth > maxDepth + 1

\* if (depth > maxDepth) return
DepthExceeded(depth) == depth > maxDepth

\* processPackageDependencies up to its await Promise.all(tasks)
ProcessPackageDependencies(g, dependencies, dependencyType, sourceNodeId, depth) ==
    IF DepthExceeded(depth) THEN g
    ELSE MapEntries(g, Entries(dependencies), dependencyType, sourceNodeId, depth)

Graph == [nodes |-> nodes, links |-> links,
          processedPackages |-> processedPackages, task |-> task]

SetGraph(g) ==
    /\ nodes' = g.nodes
    /\ links' = g.links
    /\ processedPackages' = g.processedPackages
    /\ task' = g.task

\* the three conditional pushes onto tasks of generateDependencyGraph
DirectDependencies(g) ==
    LET g1 == IF rootFile.dependencies.present
              THEN ProcessPackageDependencies(g, rootFile.dependencies.names,
                                              "dependency", RootNodeId, 1)
              ELSE g
    IN IF IncludeDev /\ rootFile.devDependencies.present
       THEN ProcessPackageDependencies(g1, rootFile.devDependencies.names,
                                       "devDependency", RootNodeId, 1)
       ELSE g1

GraphInit ==
    /\ rootFile \in RootFiles
    /\ maxDepth \in 1..MaxDepthBound
    /\ nodeModulesExists \in BOOLEAN
    /\ installed = [n \in Names |-> UnknownFile]
    /\ pc = "readRoot"
    /\ nodes = <<>>
    /\ links = <<>>
    /\ processedPackages = {}
    /\ task = [n \in Names |-> IdleTask]
    /\ expansions = [n \in Names |-> 0]
    /\ builds = 1
    /\ previous = [nodes |-> {}, links |-> {}]

\* await this.fileSystem.readJsonFile(packageJsonUri.fsPath); nodes.push(root)
ReadRootManifest ==
    /\ pc = "readRoot"
    /\ IF rootFile.readable
       THEN /\ nodes' = <<RootNode>>
            /\ pc' = "checkNodeModules"
       ELSE /\ nodes' = nodes
            /\ pc' = "rejected"
    /\ UNCHANGED <<rootFile, maxDepth, nodeModulesExists, installed, links,
                   processedPackages, task, expansions, builds, previous,
                   notGraph>>

\* await this.fileSystem.exists(nodeModulesDir), and the synchronous start of
\* the direct dependency maps
CheckNodeModules ==
    /\ pc = "checkNodeModules"
    /\ IF nodeModulesExists
       THEN /\ SetGraph(DirectDependencies(Graph))
            /\ pc' = "awaitAll"
       ELSE /\ pc' = "done"
            /\ UNCHANGED <<nodes, links, processedPackages, task>>
    /\ UNCHANGED <<rootFile, maxDepth, nodeModulesExists, installed,
                   expansions, builds, previous,
                   notGraph>>

\* the file the exists check of name finds: what was seen before, or a first
\* look (nothing is installed where node_modules does not exist)
FileSeen(name) ==
    IF installed[name].state # "unknown" THEN {installed[name]}
    ELSE IF nodeModulesExists THEN ObservedFiles ELSE {AbsentFile}

\* await this.fileSystem.exists(packageJsonPath) resolves for one callback
ExistsResolves(name) ==
    /\ pc = "awaitAll"
    /\ task[name].stage = "exists"
    /\ \E f \in FileSeen(name) :
        /\ installed' = [installed EXCEPT ![name] = f]
        /\ task' = [task EXCEPT ![name].stage =
                        IF f.state = "absent" THEN "done" ELSE "read"]
    /\ UNCHANGED <<rootFile, maxDepth, nodeModulesExists, pc, nodes, links,
                   processedPackages, expansions, builds, previous,
                   notGraph>>

\* catch (error) { console.error(...) }: the rejection of the read is
\* swallowed and generateDependencyGraph keeps waiting for the other callbacks
AfterReadErrorUncaught == "rejected"
AfterReadError == "awaitAll"

\* await this.fileSystem.readJsonFile(packageJsonPath) settles for one
\* callback: a rejection is caught, a manifest's dependencies are processed
ReadResolves(name) ==
    /\ pc = "awaitAll"
    /\ task[name].stage = "read"
    /\ LET done == [Graph EXCEPT !.task = [@ EXCEPT ![name].stage = "done"]]
       IN IF installed[name].state = "manifest"
          THEN /\ pc' = pc
               /\ IF installed[name].dependencies.present
                  THEN /\ SetGraph(ProcessPackageDependencies(
                                      done, installed[name].dependencies.names,
                                      "nestedDependency", name, task[name].depth + 1))
                       /\ expansions' = [expansions EXCEPT ![name] = @ + 1]
                  ELSE /\ SetGraph(done)
                       /\ expansions' = expansions
          ELSE /\ pc' = AfterReadError
               /\ SetGraph(done)
               /\ expansions' = expansions
    /\ UNCHANGED <<rootFile, maxDepth, nodeModulesExists, installed,
                   builds, previous, notGraph>>

\* await Promise.all(tasks); return { nodes, links }
AllSettled == \A n \in Names : task[n].stage \in {"idle", "done"}

ReturnGraph ==
    /\ pc = "awaitAll"
    /\ AllSettled
    /\ pc' = "done"
    /\ UNCHANGED <<rootFile, maxDepth, nodeModulesExists, installed, nodes,
                   links, processedPackages, task, expansions, builds, previous,
                   notGraph>>

GraphNext ==
    \/ ReadRootManifest
    \/ CheckNodeModules
    \/ \E n \in Names : ExistsResolves(n)
    \/ \E n \in Names : ReadResolves(n)
    \/ ReturnGraph

(***************************************************************************)
(* The graph view: the dependency-type filter of dependencyGraph.js.       *)
(***************************************************************************)
\* the option values of <select id="dependency-type">
TypeOptions == {"all", "dependencies", "devDependencies"}

\* an element whose opacity style was never set is drawn fully opaque
Unstyled == <<>>
Opacity(styles, i) == IF styles = Unstyled THEN 100 ELSE styles[i]

\* the page as updateGraph(graphData) draws it
GraphViewInit ==
    /\ selectedType = "all"
    /\ linkOpacity = Unstyled
    /\ nodeOpacity = Unstyled

\* filterDependencies(type): the opacity it gives to each link and node
FilteredLinkOpacity(type) ==
    [i \in 1..Len(links) |->
        IF type = "all" THEN 100
        ELSE IF links[i].type = type THEN 100 ELSE 10]
FilteredNodeOpacity(type) ==
    [i \in 1..Len(nodes) |->
        IF type = "all" THEN 100
        ELSE IF nodes[i].type = "root" THEN 100
        ELSE IF \E k \in 1..Len(links) :
                   /\ links[k].source = nodes[i].id \/ links[k].target = nodes[i].id
                   /\ links[k].type = type
             THEN 100 ELSE 30]

\* the 'change' listener of the select: filterDependencies(e.target.value)
FilterDependencies(type) ==
    /\ pc = "done"
    /\ type # selectedType
    /\ selectedType' = type
    /\ linkOpacity' = FilteredLinkOpacity(type)
    /\ nodeOpacity' = FilteredNodeOpacity(type)
    /\ UNCHANGED <<graphVars, notPanel>>

(***************************************************************************)
(* DependencyGraphPanel: a refresh builds the graph of the same project    *)
(* again, over the same files.                                             *)
(***************************************************************************)
NodeSet == {nodes[i] : i \in 1..Len(nodes)}
LinkSet == {links[i] : i \in 1..Len(links)}

\* messageRouter.on('refresh', ...) -> update(this.packageJsonUri)
Refresh ==
    /\ pc = "done"
    /\ builds < MaxBuilds
    /\ builds' = builds + 1
    /\ previous' = [nodes |-> NodeSet, links |-> LinkSet]
    /\ pc' = "readRoot"
    /\ nodes' = <<>>
    /\ links' = <<>>
    /\ processedPackages' = {}
    /\ task' = [n \in Names |-> IdleTask]
    /\ expansions' = [n \in Names |-> 0]
    /\ selectedType' = "all"
    /\ linkOpacity' = Unstyled
    /\ nodeOpacity' = Unstyled
    /\ UNCHANGED <<rootFile, maxDepth, nodeModulesExists, installed,
                   notPanel>>

(***************************************************************************)
(* NpmRegistryService.getPackageDetails and the graph panel's handler of   *)
(* the view's getPackageDetails message.                                   *)
(***************************************************************************)
\* package names the view asks about; the last one is blank
DetailNames == {"a", "b", ""}
\* !packageName || packageName.trim().length === 0
IsBlank(packageName) == packageName = ""

\* what node_modules/<name>/package.json can be for a lookup
LocalStates == {"absent", "unreadable", "manifest"}

\* the outcomes of axios.get(url, {timeout}): a 2xx response with its body,
\* or an AxiosError with the response's status (0: no response was received)
\* and axios's message
OkResponses ==
    {[kind |-> "ok", status |-> 200, body |-> b, message |-> ""] :
        b \in {"document", "empty", "null"}}
AxiosErrors ==
    {[kind |-> "axiosError", status |-> 404, body |-> "null",
      message |-> "Request failed with status code 404"],
     [kind |-> "axiosError", status |-> 500, body |-> "null",
      message |-> "Request failed with status code 500"],
     [kind |-> "axiosError", status |-> 0, body |-> "null",
      message |-> "timeout of 10000ms exceeded"],
     [kind |-> "axiosError", status |-> 0, body |-> "null",
      message |-> "Network Error"],
     [kind |-> "axiosError", status |-> 0, body |-> "null", message |-> ""]}
Responses == OkResponses \cup AxiosErrors
NoResponse == [kind |-> "none", status |-> 0, body |-> "null", message |-> ""]

\* class NpmRegistryError extends Error
NpmRegistryError(message, packageName) ==
    [ok |-> FALSE, name |-> "NpmRegistryError", message |-> message,
     packageName |-> packageName]

\* transformPackageDetails(response.data), for the registry's document of
\* the package, for an object without fields, and for a null body (reading a
\* property of null throws a TypeError)
TransformThrows(body) == body = "null"
TransformPackageDetails(packageName, body) ==
    [name |-> IF body = "document" THEN packageName ELSE "unknown",
     version |-> IF body = "document" THEN "2.0.0" ELSE "0.0.0",
     description |-> IF body = "document" THEN "registry description"
                     ELSE "No description available",
     author |-> "Unknown", license |-> "Unknown", homepage |-> "",
     repository |-> "", dependencies |-> 0, source |-> "npm"]

\* the catch block of getPackageDetails
RegistryErrorNo404(packageName, response) ==
    IF response.kind = "axiosError"
    THEN NpmRegistryError("Failed to fetch package details: " \o response.message,
                          packageName)
    ELSE NpmRegistryError("Failed to fetch package details", packageName)
RegistryError(packageName, response) ==
    IF response.kind = "axiosError"
    THEN IF response.status = 404
         THEN NpmRegistryError("Package not found: " \o packageName, packageName)
         ELSE NpmRegistryError("Failed to fetch package details: "
                                   \o response.message, packageName)
    ELSE NpmRegistryError("Failed to fetch package details", packageName)

\* getPackageDetails(packageName), given what the request will answer
GetPackageDetails(packageName, response) ==
    IF IsBlank(packageName)
    THEN NpmRegistryError("Package name is required", Undefined)
    ELSE IF response.kind = "ok" /\ ~TransformThrows(response.body)
    THEN [ok |-> TRUE,
          details |-> TransformPackageDetails(packageName, response.body)]
    ELSE RegistryError(packageName, response)

\* getLocalPackageDetails: the manifest, or undefined when the file is
\* absent or its read throws
HasLocalDetails(packageName) == localFiles[packageName] = "manifest"
LocalDetails(packageName) ==
    [name |-> packageName, version |-> "1.0.0",
     description |-> "No description available", author |-> "Unknown",
     license |-> "Unknown", homepage |-> "", repository |-> "",
     dependencies |-> 0, source |-> "local"]

\* the record the handler's catch block posts
ErrorDetails(packageName) ==
    [name |-> packageName, description |-> "Could not fetch package details",
     version |-> "unknown", author |-> "Unknown", license |-> "Unknown",
     homepage |-> "", repository |-> "", dependencies |-> 0,
     source |-> "error"]

PackageDetailsMessage(details, packageName) ==
    [command |-> "packageDetails", details |-> details,
     packageName |-> packageName]
NoMessage == [command |-> "none"]
NoOutcome == [ok |-> FALSE, name |-> "none"]

\* what handleGetPackageDetails posts for an outcome of getPackageDetails
PostFor(packageName, outcome) ==
    IF outcome.ok THEN PackageDetailsMessage(outcome.details, packageName)
    ELSE PackageDetailsMessage(ErrorDetails(packageName), packageName)

DetailsIdle ==
    /\ localFiles = [n \in DetailNames |-> "absent"]
    /\ requests = <<>>
    /\ posted = <<>>

\* (node_modules itself holds no package.json, which is where a blank name
\* makes the lookup look)
DetailsInit ==
    /\ localFiles \in {f \in [DetailNames -> LocalStates] : f[""] = "absent"}
    /\ requests = <<>>
    /\ posted = <<>>

\* messageRouter.on('getPackageDetails', ...): the handler starts its local
\* lookup
HandlerStarts(packageName) ==
    /\ Len(requests) < MaxRequests
    /\ requests' = Append(requests,
                          [packageName |-> packageName, stage |-> "local",
                           response |-> NoResponse, outcome |-> NoOutcome,
                           message |-> NoMessage])

GetPackageDetailsMessage(packageName) ==
    /\ HandlerStarts(packageName)
    /\ UNCHANGED <<localFiles, posted, notDetails>>

\* where the handler stands after posting local details: `return`
AfterLocalDetailsNoReturn == "registry"
AfterLocalDetails == "settled"

\* await getLocalPackageDetails(...) resolves: local details are posted;
\* without them the registry is asked, which rejects at once for a blank name
LocalLookupResolves(i) ==
    /\ i \in 1..Len(requests)
    /\ requests[i].stage = "local"
    /\ LET packageName == requests[i].packageName
           outcome == GetPackageDetails(packageName, NoResponse)
       IN IF HasLocalDetails(packageName)
          THEN LET m == PackageDetailsMessage(LocalDetails(packageName),
                                              packageName)
               IN /\ posted' = Append(posted, m)
                  /\ requests' = [requests EXCEPT ![i].stage = AfterLocalDetails,
                                                  ![i].message = m]
          ELSE IF IsBlank(packageName)
          THEN LET m == PostFor(packageName, outcome)
               IN /\ posted' = Append(posted, m)
                  /\ requests' = [requests EXCEPT ![i].stage = "settled",
                                                  ![i].outcome = outcome,
                                                  ![i].message = m]
          ELSE /\ posted' = posted
               /\ requests' = [requests EXCEPT ![i].stage = "registry"]
    /\ UNCHANGED <<localFiles, notDetails>>

\* await axios.get(...) settles: getPackageDetails returns or throws, and the
\* handler posts the details or its catch block's record
RegistryResponds(i, response) ==
    /\ i \in 1..Len(requests)
    /\ requests[i].stage = "registry"
    /\ LET packageName == requests[i].packageName
           outcome == GetPackageDetails(packageName, response)
           m == PostFor(packageName, outcome)
       IN /\ posted' = Append(posted, m)
          /\ requests' = [requests EXCEPT ![i].stage = "settled",
                                          ![i].response = response,
                                          ![i].outcome = outcome,
                                          ![i].message = m]
    /\ UNCHANGED <<localFiles, notDetails>>

DetailsNext ==
    \/ \E n \in DetailNames : GetPackageDetailsMessage(n)
    \/ \E i \in 1..MaxRequests : LocalLookupResolves(i)
    \/ \E i \in 1..MaxRequests, r \in Responses : RegistryResponds(i, r)

(***************************************************************************)
(* JSON texts and values of the manifests the editor handles.  An object   *)
(* is the sequence of its members in key order; a text is the sequence of  *)
(* its lines.                                                              *)
(***************************************************************************)
FormKeys == <<"name", "version">>
FieldValues(key) == IF key = "name" THEN {"x", "y"} ELSE {"1"}
Member(key, value) == [key |-> key, value |-> value]
MembersOf(key, values) == {Member(key, v) : v \in values}

\* the objects over the keys, with the given values
ObjectsOver(nameValues, versionValues) ==
    LET ns == MembersOf("name", nameValues)
        vs == MembersOf("version", versionValues)
    IN {<<>>} \cup {<<n>> : n \in ns} \cup {<<v>> : v \in vs}
       \cup {<<n, v>> : n \in ns, v \in vs}
       \cup {<<v, n>> : n \in ns, v \in vs}

JsonObject(members) == [type |-> "object", members |-> members]
JsonArray == [type |-> "array", members |-> <<>>]
JsonNull == [type |-> "null", members |-> <<>>]

\* the values a user writes into a file, and those the form can produce
\* (the form also writes empty strings)
WrittenValues ==
    {JsonObject(m) : m \in ObjectsOver(FieldValues("name"), FieldValues("version"))}
    \cup {JsonArray, JsonNull}
JsonValues ==
    {JsonObject(m) : m \in ObjectsOver(FieldValues("name") \cup {""},
                                       FieldValues("version") \cup {""})}
    \cup {JsonArray, JsonNull}

Quoted(str) == "\"" \o str \o "\""

\* JSON.stringify(value, null, 2)
MemberLine(m, last) ==
    "  " \o Quoted(m.key) \o ": " \o Quoted(m.value) \o (IF last THEN "" ELSE ",")
Stringify(value) ==
    IF value.type = "null" THEN <<"null">>
    ELSE IF value.type = "array" THEN <<"[]">>
    ELSE IF value.members = <<>> THEN <<"{}">>
    ELSE <<"{">>
         \o [i \in 1..Len(value.members) |->
                MemberLine(value.members[i], i = Len(value.members))]
         \o <<"}">>

\* the same value written on one line
RECURSIVE CompactMembers(_)
CompactMembers(members) ==
    IF members = <<>> THEN ""
    ELSE Quoted(Head(members).key) \o ":" \o Quoted(Head(members).value)
         \o (IF Len(members) = 1 THEN "" ELSE ",")
         \o CompactMembers(Tail(members))
Compact(value) ==
    IF value.type = "object" THEN <<"{" \o CompactMembers(value.members) \o "}">>
    ELSE Stringify(value)

\* texts that are not JSON
InvalidTexts == {<<"{ \"name\": ">>, <<>>}

\* the texts a user writes
\* the text of a file that ends with a line break
WithFinalNewline(text) == text \o <<"">>

\* the texts that denote a value
Renderings(value) ==
    {Stringify(value), Compact(value), WithFinalNewline(Stringify(value))}

WrittenTexts ==
    UNION {Renderings(v) : v \in WrittenValues} \cup InvalidTexts

\* JSON.parse(text): the value the text denotes, or a SyntaxError
JsonTexts == UNION {Renderings(v) : v \in JsonValues}
ParseTable ==
    [text \in JsonTexts |-> CHOOSE v \in JsonValues : text \in Renderings(v)]
ParseOk(text) == text \in JsonTexts
Parse(text) == ParseTable[text]

\* object[key], and object[key] = value (a new key is added last; an own
\* property of an array is not part of its JSON)
HasKey(value, key) ==
    \E i \in 1..Len(value.members) : value.members[i].key = key
Get(value, key) ==
    IF HasKey(value, key)
    THEN (CHOOSE m \in {value.members[i] : i \in 1..Len(value.members)} :
              m.key = key).value
    ELSE Undefined
SetField(value, key, fieldValue) ==
    IF value.type # "object" THEN value
    ELSE IF HasKey(value, key)
    THEN [value EXCEPT !.members =
              [i \in 1..Len(@) |-> IF @[i].key = key
                                   THEN Member(key, fieldValue) ELSE @[i]]]
    ELSE [value EXCEPT !.members = Append(@, Member(key, fieldValue))]

\* deep equality of two JSON values: the same members, in any key order
SameJson(v, w) ==
    /\ v.type = w.type
    /\ \A key \in {"name", "version"} : Get(v, key) = Get(w, key)

(***************************************************************************)
(* JSON.stringify(data, null, 2) and JSON.parse on characters, for the     *)
(* values the editor writes: strings, lists of strings and maps from       *)
(* string to string.  A text is a sequence of characters; "LF" stands for  *)
(* the line feed character.                                                *)
(***************************************************************************)
Str(chars) == [t |-> "string", chars |-> chars]
List(items) == [t |-> "list", items |-> items]
Obj(members) == [t |-> "object", members |-> members]
Pair(key, value) == [key |-> key, value |-> value]
ParseFailure == [ok |-> FALSE, value |-> Str(<<>>), pos |-> 0]
Parsed(value, pos) == [ok |-> TRUE, value |-> value, pos |-> pos]

RECURSIVE Flatten(_)
Flatten(seqs) == IF seqs = <<>> THEN <<>> ELSE Head(seqs) \o Flatten(Tail(seqs))

\* the escape of one character inside a JSON string
QuoteCharRaw(c) == <<c>>
QuoteChar(c) ==
    IF c = "\"" THEN <<"\\", "\"">>
    ELSE IF c = "\\" THEN <<"\\", "\\">>
    ELSE IF c = "LF" THEN <<"\\", "n">>
    ELSE <<c>>
Quote(chars) ==
    <<"\"">> \o Flatten([i \in 1..Len(chars) |-> QuoteChar(chars[i])]) \o <<"\"">>

Indent(n) == [i \in 1..n |-> " "]

\* the elements of a list or object, one per line at the inner indentation,
\* separated by commas
RECURSIVE JoinLines(_, _)
JoinLines(parts, indent) ==
    IF parts = <<>> THEN <<>>
    ELSE <<"LF">> \o Indent(indent) \o Head(parts)
         \o (IF Len(parts) > 1 THEN <<",">> ELSE <<>>)
         \o JoinLines(Tail(parts), indent)

RECURSIVE JsonStringify(_, _)
JsonStringify(value, indent) ==
    IF value.t = "string" THEN Quote(value.chars)
    ELSE IF value.t = "list"
    THEN IF value.items = <<>> THEN <<"[", "]">>
         ELSE <<"[">>
              \o JoinLines([i \in 1..Len(value.items) |->
                               JsonStringify(value.items[i], indent + 2)],
                           indent + 2)
              \o <<"LF">> \o Indent(indent) \o <<"]">>
    ELSE IF value.members = <<>> THEN <<"{", "}">>
         ELSE <<"{">>
              \o JoinLines([i \in 1..Len(value.members) |->
                               Quote(value.members[i].key) \o <<":", " ">>
                               \o JsonStringify(value.members[i].value, indent + 2)],
                           indent + 2)
              \o <<"LF">> \o Indent(indent) \o <<"}">>

\* JSON.parse: a recursive descent over the characters
CharAt(chars, pos) == IF pos \in 1..Len(chars) THEN chars[pos] ELSE "EOF"

RECURSIVE SkipSpace(_, _)
SkipSpace(chars, pos) ==
    IF CharAt(chars, pos) \in {" ", "LF"} THEN SkipSpace(chars, pos + 1) ELSE pos

\* the characters of a string whose opening quote has been read
RECURSIVE ParseChars(_, _, _)
ParseChars(chars, pos, acc) ==
    LET c == CharAt(chars, pos)
    IN IF c = "\"" THEN Parsed(acc, pos + 1)
       ELSE IF c \in {"EOF", "LF"} THEN ParseFailure
       ELSE IF c = "\\"
       THEN LET e == CharAt(chars, pos + 1)
            IN IF e \in {"\"", "\\"} THEN ParseChars(chars, pos + 2, Append(acc, e))
               ELSE IF e = "n" THEN ParseChars(chars, pos + 2, Append(acc, "LF"))
               ELSE ParseFailure
       ELSE ParseChars(chars, pos + 1, Append(acc, c))

ParseString(chars, pos) ==
    IF CharAt(chars, pos) = "\"" THEN ParseChars(chars, pos + 1, <<>>)
    ELSE ParseFailure

\* put a member into an object: a repeated key keeps its place and takes
\* the later value
PutMember(members, key, value) ==
    IF \E i \in 1..Len(members) : members[i].key = key
    THEN [i \in 1..Len(members) |->
             IF members[i].key = key THEN Pair(key, value) ELSE members[i]]
    ELSE Append(members, Pair(key, value))

RECURSIVE ParseValue(_, _)
RECURSIVE ParseItems(_, _, _)
RECURSIVE ParseMembers(_, _, _)

\* the items of a list after "[" or after a comma
ParseItems(chars, pos, acc) ==
    LET item == ParseValue(chars, SkipSpace(chars, pos))
        next == SkipSpace(chars, item.pos)
    IN IF ~item.ok THEN ParseFailure
       ELSE IF CharAt(chars, next) = ","
       THEN ParseItems(chars, next + 1, Append(acc, item.value))
       ELSE IF CharAt(chars, next) = "]"
       THEN Parsed(List(Append(acc, item.value)), next + 1)
       ELSE ParseFailure

\* the members of an object after "{" or after a comma
ParseMembers(chars, pos, acc) ==
    LET key == ParseString(chars, SkipSpace(chars, pos))
        colon == SkipSpace(chars, key.pos)
        value == ParseValue(chars, SkipSpace(chars, colon + 1))
        next == SkipSpace(chars, value.pos)
    IN IF ~key.ok \/ CharAt(chars, colon) # ":" THEN ParseFailure
       ELSE IF ~value.ok THEN ParseFailure
       ELSE IF CharAt(chars, next) = ","
       THEN ParseMembers(chars, next + 1, PutMember(acc, key.value, value.value))
       ELSE IF CharAt(chars, next) = "}"
       THEN Parsed(Obj(PutMember(acc, key.value, value.value)), next + 1)
       ELSE ParseFailure

ParseValue(chars, pos) ==
    LET c == CharAt(chars, pos)
    IN IF c = "\""
       THEN LET str == ParseString(chars, pos)
            IN IF str.ok THEN Parsed(Str(str.value), str.pos) ELSE ParseFailure
       ELSE IF c = "["
       THEN IF CharAt(chars, SkipSpace(chars, pos + 1)) = "]"
            THEN Parsed(List(<<>>), SkipSpace(chars, pos + 1) + 1)
            ELSE ParseItems(chars, pos + 1, <<>>)
       ELSE IF c = "{"
       THEN IF CharAt(chars, SkipSpace(chars, pos + 1)) = "}"
            THEN Parsed(Obj(<<>>), SkipSpace(chars, pos + 1) + 1)
            ELSE ParseMembers(chars, pos + 1, <<>>)
       ELSE ParseFailure

\* JSON.parse(text): the value, when nothing but white space follows it
JsonParse(chars) ==
    LET first == ParseValue(chars, SkipSpace(chars, 1))
    IN IF first.ok /\ SkipSpace(chars, first.pos) = Len(chars) + 1
       THEN first ELSE ParseFailure

\* deep equality: the same strings, the same items in order, the same keys
\* with deep-equal values in any order
RECURSIVE DeepEqual(_, _)
DeepEqual(v, w) ==
    /\ v.t = w.t
    /\ IF v.t = "string" THEN v.chars = w.chars
       ELSE IF v.t = "list"
       THEN /\ Len(v.items) = Len(w.items)
            /\ \A i \in 1..Len(v.items) : DeepEqual(v.items[i], w.items[i])
       ELSE /\ Len(v.members) = Len(w.members)
            /\ \A i \in 1..Len(v.members) :
                 \E j \in 1..Len(w.members) :
                    /\ v.members[i].key = w.members[j].key
                    /\ DeepEqual(v.members[i].value, w.members[j].value)

(***************************************************************************)
(* PackageJsonService.readPackageJson and updateDocument.                  *)
(***************************************************************************)
MissingFile == [exists |-> FALSE, content |-> <<>>]
FileWith(text) == [exists |-> TRUE, content |-> text]

\* isValidPackageJson: !data || typeof data !== 'object'
IsValidPackageJson(data) == data.type \in {"object", "array"}

PackageJsonError(message) == [ok |-> FALSE, data |-> JsonNull, error |-> message]
ReadPackageJson(file) ==
    IF ~file.exists
    THEN PackageJsonError("Failed to read package.json: Failed to read file")
    ELSE IF ~ParseOk(file.content)
    THEN PackageJsonError("Failed to parse package.json: Unexpected token")
    ELSE IF ~IsValidPackageJson(Parse(file.content))
    THEN PackageJsonError("Failed to parse package.json: Invalid package.json structure")
    ELSE [ok |-> TRUE, data |-> Parse(file.content), error |-> ""]

\* document.lineCount: an empty document has one (empty) line
LineCount(text) == IF text = <<>> THEN 1 ELSE Len(text)

\* WorkspaceEdit.replace(uri, new Range(0, 0, endLine, 0), newText), applied:
\* a position after the last line is adjusted to the end of the document;
\* otherwise the lines from endLine on stay, joined to the new text
ReplaceRange(text, endLine, newText) ==
    IF endLine >= LineCount(text) \/ text = <<>> THEN newText
    ELSE LET rest == SubSeq(text, endLine + 1, Len(text))
         IN IF newText = <<>> THEN rest
            ELSE SubSeq(newText, 1, Len(newText) - 1)
                 \o <<newText[Len(newText)] \o Head(rest)>> \o Tail(rest)

\* the end line of the replaced range: document.lineCount
RangeEndLineLast(text) == LineCount(text) - 1
RangeEndLine(text) == LineCount(text)

\* updateDocument(document, data): the text after the edit is applied
UpdateDocument(text, data) ==
    ReplaceRange(text, RangeEndLine(text), Stringify(data))

(***************************************************************************)
(* PackageJsonEditorProvider and the editor view (packageJsonEditor.js).   *)
(***************************************************************************)
\* the texts a user types into the text editor of the document
TypedTexts ==
    {Compact(JsonObject(<<Member("version", "1"), Member("name", "x")>>)),
     Stringify(JsonObject(<<Member("name", "y")>>)),
     Stringify(JsonNull)} \cup InvalidTexts

PackageJsonMessage(data) ==
    [command |-> "packageJson", packageJson |-> data, error |-> ""]
ErrorMessage(message) ==
    [command |-> "error", packageJson |-> JsonNull, error |-> message]

\* the value of a form input after updateUI(packageJson): data.name || ''
FormValue(key) ==
    IF Get(viewPackageJson, key) = Undefined THEN "" ELSE Get(viewPackageJson, key)

\* no form field has been changed by the user
NoEdits == [key \in {"name", "version"} |-> Undefined]

EditorIdle ==
    /\ diskFile = MissingFile
    /\ docText = <<>>
    /\ pendingSends = 0
    /\ toView = <<>>
    /\ toHost = <<>>
    /\ viewLoaded = FALSE
    /\ viewPackageJson = JsonNull
    /\ viewError = FALSE
    /\ events = 0
    /\ typed = NoEdits

\* resolveCustomTextEditor: the document shows the file's text, the view's
\* script has not run yet
EditorInit ==
    /\ docText \in WrittenTexts
    /\ diskFile = FileWith(docText)
    /\ pendingSends = 0
    /\ toView = <<>>
    /\ toHost = <<>>
    /\ viewLoaded = FALSE
    /\ viewPackageJson = JsonNull
    /\ viewError = FALSE
    /\ events = 0
    /\ typed = NoEdits

\* DOMContentLoaded posts getPackageJson, whose handler calls
\* sendPackageJsonToWebview
ViewLoads ==
    /\ ~viewLoaded
    /\ viewLoaded' = TRUE
    /\ pendingSends' = pendingSends + 1
    /\ typed' = typed
    /\ UNCHANGED <<diskFile, docText, toView, toHost, viewPackageJson,
                   viewError, events, notEditor>>

\* a form input changes: updatePackageJsonFromForm writes every input into
\* packageJson and posts updatePackageJson with it
ViewChangesField(key, fieldValue) ==
    /\ viewLoaded
    /\ events < MaxEvents
    /\ viewPackageJson # JsonNull
    /\ fieldValue # FormValue(key)
    /\ LET named == SetField(viewPackageJson, "name",
                         IF key = "name" THEN fieldValue ELSE FormValue("name"))
           data == SetField(named, "version",
                            IF key = "version" THEN fieldValue
                            ELSE FormValue("version"))
       IN /\ viewPackageJson' = data
          /\ toHost' = Append(toHost, data)
    /\ events' = events + 1
    /\ typed' = [typed EXCEPT ![key] = fieldValue]
    /\ UNCHANGED <<diskFile, docText, pendingSends, toView, viewLoaded,
                   viewError, notEditor>>

\* router.on('updatePackageJson'): handleUpdatePackageJson replaces the
\* document's text, and the change listener calls sendPackageJsonToWebview
\* when the text changed
HandleUpdatePackageJson ==
    /\ toHost # <<>>
    /\ toHost' = Tail(toHost)
    /\ docText' = UpdateDocument(docText, Head(toHost))
    /\ pendingSends' = IF docText' # docText THEN pendingSends + 1
                       ELSE pendingSends
    /\ typed' = typed
    /\ UNCHANGED <<diskFile, toView, viewLoaded, viewPackageJson, viewError,
                   events, notEditor>>

\* the user types in a text editor of the same document
TextEdited(text) ==
    /\ events < MaxEvents
    /\ text # docText
    /\ docText' = text
    /\ pendingSends' = pendingSends + 1
    /\ events' = events + 1
    /\ typed' = NoEdits
    /\ UNCHANGED <<diskFile, toView, toHost, viewLoaded, viewPackageJson,
                   viewError, notEditor>>

\* the user saves the dirty document: the file takes the document's text and
\* the change of the dirty state fires onDidChangeTextDocument
Save ==
    /\ events < MaxEvents
    /\ diskFile # FileWith(docText)
    /\ diskFile' = FileWith(docText)
    /\ pendingSends' = pendingSends + 1
    /\ events' = events + 1
    /\ typed' = typed
    /\ UNCHANGED <<docText, toView, toHost, viewLoaded, viewPackageJson,
                   viewError, notEditor>>

\* the file is deleted outside the editor
FileDeleted ==
    /\ events < MaxEvents
    /\ diskFile.exists
    /\ diskFile' = MissingFile
    /\ events' = events + 1
    /\ typed' = typed
    /\ UNCHANGED <<docText, pendingSends, toView, toHost, viewLoaded,
                   viewPackageJson, viewError, notEditor>>

\* sendPackageJsonToWebview: await readPackageJson(document.uri) settles and
\* the manifest, or the error's message, is posted
SendReads == ReadPackageJson(diskFile)
SendMessageNoCatch(result) == PackageJsonMessage(result.data)
SendMessage(result) ==
    IF result.ok THEN PackageJsonMessage(result.data)
    ELSE ErrorMessage(result.error)
SendResolves ==
    /\ pendingSends > 0
    /\ pendingSends' = pendingSends - 1
    /\ toView' = Append(toView, SendMessage(SendReads))
    /\ typed' = typed
    /\ UNCHANGED <<diskFile, docText, toHost, viewLoaded, viewPackageJson,
                   viewError, events, notEditor>>

\* the view's message listener
ViewReceives ==
    /\ toView # <<>>
    /\ toView' = Tail(toView)
    /\ IF Head(toView).command = "packageJson"
       THEN /\ viewPackageJson' = Head(toView).packageJson
            /\ viewError' = FALSE
       ELSE /\ viewPackageJson' = viewPackageJson
            /\ viewError' = TRUE
    /\ typed' = typed
    /\ UNCHANGED <<diskFile, docText, pendingSends, toHost, viewLoaded, events,
                   notEditor>>

EditorNext ==
    \/ ViewLoads
    \/ \E key \in {"name", "version"} :
           \E v \in FieldValues(key) \cup {""} : ViewChangesField(key, v)
    \/ HandleUpdatePackageJson
    \/ \E text \in TypedTexts : TextEdited(text)
    \/ Save
    \/ FileDeleted
    \/ SendResolves
    \/ ViewReceives

(***************************************************************************)
(* A manifest object of the editor, written as text and read back.         *)
(***************************************************************************)
\* field values: empty, plain, and with the characters JSON gives a meaning
Strs ==
    {<<>>, <<"a">>, <<"\"">>, <<"\\", "n">>, <<"LF", "\\">>, <<"}", ",", " ">>}
DependencyKeys == {<<"a">>, <<"\"", ":">>}
KeyName == <<"n", "a", "m", "e">>
KeyKeywords == <<"k", "e", "y", "w", "o", "r", "d", "s">>
KeyDependencies == <<"d", "e", "p", "s">>

\* the values a field can have; <<>> stands for a field that is not set
NameFields == {<<>>} \cup {<<Pair(KeyName, Str(c))>> : c \in Strs}
KeywordFields ==
    {<<>>, <<Pair(KeyKeywords, List(<<>>))>>}
    \cup {<<Pair(KeyKeywords, List(<<Str(c)>>))>> : c \in Strs}
    \cup {<<Pair(KeyKeywords, List(<<Str(c), Str(d)>>))>> : c \in Strs, d \in Strs}
DependencyFields ==
    {<<>>, <<Pair(KeyDependencies, Obj(<<>>))>>}
    \cup {<<Pair(KeyDependencies, Obj(<<Pair(k, Str(c))>>))>> :
             k \in DependencyKeys, c \in Strs}
    \cup {<<Pair(KeyDependencies,
                 Obj(<<Pair(<<"a">>, Str(c)), Pair(<<"\"", ":">>, Str(d))>>))>> :
             c \in Strs, d \in Strs}
Manifests ==
    {Obj(n \o k \o d) : n \in NameFields, k \in KeywordFields, d \in DependencyFields}

JsonIdle ==
    /\ manifest = Obj(<<>>)
    /\ written = <<>>
    /\ reparsed = ParseFailure
    /\ jsonStage = "idle"

JsonInit ==
    /\ manifest \in Manifests
    /\ written = <<>>
    /\ reparsed = ParseFailure
    /\ jsonStage = "object"

\* updateDocument / writeJsonFile: the text written for the object
WriteManifest ==
    /\ jsonStage = "object"
    /\ written' = JsonStringify(manifest, 0)
    /\ jsonStage' = "written"
    /\ UNCHANGED <<manifest, reparsed, notJson>>

\* readPackageJson / readJsonFile: JSON.parse of the text
ReadManifest ==
    /\ jsonStage = "written"
    /\ reparsed' = JsonParse(written)
    /\ jsonStage' = "parsed"
    /\ UNCHANGED <<manifest, written, notJson>>

JsonNext == WriteManifest \/ ReadManifest

(***************************************************************************)
(* ToggleViewCommand and the window's editor tabs.                         *)
(***************************************************************************)
\* the package.json files of the workspace
Uris == {"F/package.json", "G/package.json"}
\* a tab shows a file in the text editor or in the visual (custom) editor
Tab(uri, kind) == [uri |-> uri, kind |-> kind]
Other(kind) == IF kind = "text" THEN "visual" ELSE "text"
ViewTypeOf(kind) ==
    IF kind = "visual" THEN "packageJsonManager.packageJsonEditor" ELSE "default"

TabsIdle ==
    /\ tabGroups = <<>>
    /\ activeGroup = 0
    /\ lastCommand = "none"

ActiveTab == tabGroups[activeGroup].tabs[tabGroups[activeGroup].active]
HasTabFor(group, uri) == \E i \in 1..Len(group.tabs) : group.tabs[i].uri = uri
TabIndex(group, uri) == CHOOSE i \in 1..Len(group.tabs) : group.tabs[i].uri = uri

\* vscode.openWith(uri, viewType) in a group: a tab of the file is reopened
\* with the editor asked for, a file without a tab gets a new one; the tab
\* becomes the group's active tab
OpenInGroup(group, uri, kind) ==
    IF HasTabFor(group, uri)
    THEN [tabs |-> [group.tabs EXCEPT ![TabIndex(group, uri)].kind = kind],
          active |-> TabIndex(group, uri)]
    ELSE [tabs |-> Append(group.tabs, Tab(uri, kind)),
          active |-> Len(group.tabs) + 1]

\* vscode.commands.executeCommand('vscode.openWith', uri, viewType)
OpenWith(uri, kind) ==
    IF activeGroup = 0
    THEN /\ tabGroups' = <<[tabs |-> <<Tab(uri, kind)>>, active |-> 1]>>
         /\ activeGroup' = 1
    ELSE /\ tabGroups' = [tabGroups EXCEPT ![activeGroup] = OpenInGroup(@, uri, kind)]
         /\ activeGroup' = activeGroup

\* the user opens a file in the focused group
UserOpens(uri, kind) ==
    /\ activeGroup # 0 =>
          (HasTabFor(tabGroups[activeGroup], uri)
           \/ Len(tabGroups[activeGroup].tabs) < MaxTabs)
    /\ OpenWith(uri, kind)
    /\ lastCommand' = "open"
    /\ UNCHANGED notTabs

\* the user opens a file to the side, in a second group
UserOpensToSide(uri, kind) ==
    /\ Len(tabGroups) = 1
    /\ tabGroups' = Append(tabGroups, [tabs |-> <<Tab(uri, kind)>>, active |-> 1])
    /\ activeGroup' = 2
    /\ lastCommand' = "open"
    /\ UNCHANGED notTabs

\* the user clicks a tab
UserFocuses(g, i) ==
    /\ g \in 1..Len(tabGroups)
    /\ i \in 1..Len(tabGroups[g].tabs)
    /\ <<g, i>> # <<activeGroup, tabGroups[activeGroup].active>>
    /\ tabGroups' = [tabGroups EXCEPT ![g].active = i]
    /\ activeGroup' = g
    /\ lastCommand' = "focus"
    /\ UNCHANGED notTabs

\* vscode.window.activeTextEditor: the text editor that has the focus
ActiveTextEditorUri ==
    IF activeGroup # 0 /\ ActiveTab.kind = "text" THEN ActiveTab.uri ELSE Undefined

\* the first tab, over all groups in order, that shows the visual editor
RECURSIVE FirstVisualTab(_, _)
FirstVisualTab(g, i) ==
    IF g > Len(tabGroups) THEN Undefined
    ELSE IF i > Len(tabGroups[g].tabs) THEN FirstVisualTab(g + 1, 1)
    ELSE IF tabGroups[g].tabs[i].kind = "visual" THEN tabGroups[g].tabs[i].uri
    ELSE FirstVisualTab(g, i + 1)

GetActivePackageJsonUri ==
    IF ActiveTextEditorUri # Undefined THEN ActiveTextEditorUri
    ELSE FirstVisualTab(1, 1)

IsInVisualEditor(uri) ==
    \E g \in 1..Len(tabGroups) :
        \E i \in 1..Len(tabGroups[g].tabs) :
            /\ tabGroups[g].tabs[i] = Tab(uri, "visual")
            /\ tabGroups[g].active = i

\* ToggleViewCommand.execute(uri)
Execute(uri) ==
    LET targetUri == IF uri # Undefined THEN uri ELSE GetActivePackageJsonUri
    IN IF targetUri = Undefined THEN UNCHANGED <<tabGroups, activeGroup>>
       ELSE IF IsInVisualEditor(targetUri) THEN OpenWith(targetUri, "text")
       ELSE OpenWith(targetUri, "visual")

\* where the command is invoked from: the visual editor's toggle button and
\* the command palette pass no URI, the editor/title menu passes the URI of
\* the editor it belongs to
ToggleSources == {"button", "palette", "title"}
ToggleView(source) ==
    /\ activeGroup # 0
    /\ source = "button" => ActiveTab.kind = "visual"
    /\ Execute(IF source = "title" THEN ActiveTab.uri ELSE Undefined)
    /\ lastCommand' = "toggle"
    /\ UNCHANGED notTabs

TabsNext ==
    \/ \E uri \in Uris, kind \in {"text", "visual"} : UserOpens(uri, kind)
    \/ \E uri \in Uris, kind \in {"text", "visual"} : UserOpensToSide(uri, kind)
    \/ \E g \in 1..2, i \in 1..MaxTabs : UserFocuses(g, i)
    \/ \E source \in ToggleSources : ToggleView(source)

(***************************************************************************)
(* ConfigurationManager and the options DependencyGraphPanel.update gives  *)
(* to generateDependencyGraph.                                             *)
(***************************************************************************)
Min(a, b) == IF a < b THEN a ELSE b
Max(a, b) == IF a > b THEN a ELSE b

\* the values the user gives to packageJsonManager.maxDependencyDepth
ConfiguredDepths == {1, 3}

\* ConfigurationManager.getMaxDependencyDepth()
GetMaxDependencyDepth == Max(1, Min(10, configuredDepth))

\* the options of update(): { maxDepth: 3, includeDev: true }
PanelOptions == [maxDepth |-> 3, includeDev |-> IncludeDev]

\* the setting's default
ConfigIdle == configuredDepth = 3

\* createOrShow: the panel's first build, under any setting
PanelInit ==
    /\ GraphInit
    /\ maxDepth = PanelOptions.maxDepth
    /\ configuredDepth \in ConfiguredDepths

\* the user changes the setting between two builds
ChangeSetting(depth) ==
    /\ pc = "done"
    /\ depth # configuredDepth
    /\ configuredDepth' = depth
    /\ UNCHANGED notConfig

PanelNext ==
    \/ GraphNext
    \/ Refresh
    \/ \E depth \in ConfiguredDepths : ChangeSetting(depth)

(***************************************************************************)
(* extension.ts: activate, registerCommands; the router of the editor view *)
(***************************************************************************)
MaxCommands == 3

OpenPackageJsonEditor == "packageJsonManager.openPackageJsonEditor"
ToggleViewId == "packageJsonManager.toggleView"
ShowDependencyGraph == "packageJsonManager.showDependencyGraph"
CommandIds == {OpenPackageJsonEditor, ToggleViewId, ShowDependencyGraph}

\* the command values the editor view posts, and one the router does not know
ViewCommands == {"getPackageJson", "toggleView", "showDependencyGraph", "other"}

CommandsIdle ==
    /\ active = FALSE
    /\ providerRegistered = FALSE
    /\ commands = {}
    /\ editorOpen = FALSE
    /\ routerInbox = <<>>
    /\ executed = <<>>

RegisterCommandsNoToggle == {OpenPackageJsonEditor, ShowDependencyGraph}

\* registerCommands: the three vscode.commands.registerCommand calls
RegisterCommands == {OpenPackageJsonEditor, ToggleViewId, ShowDependencyGraph}

\* activate(context): registers the provider, then the commands, in one
\* synchronous call
Activate ==
    /\ ~active
    /\ active' = TRUE
    /\ providerRegistered' = TRUE
    /\ commands' = commands \cup RegisterCommands
    /\ UNCHANGED <<editorOpen, routerInbox, executed, notCommands>>

\* the extension is deactivated: context.subscriptions are disposed, and the
\* webview panels of its editors with them
Deactivate ==
    /\ active
    /\ active' = FALSE
    /\ providerRegistered' = FALSE
    /\ commands' = {}
    /\ editorOpen' = FALSE
    /\ routerInbox' = <<>>
    /\ UNCHANGED <<executed, notCommands>>

\* resolveCustomTextEditor: only a registered provider is asked to resolve
ResolveCustomTextEditor ==
    /\ providerRegistered
    /\ ~editorOpen
    /\ editorOpen' = TRUE
    /\ UNCHANGED <<active, providerRegistered, commands, routerInbox, executed,
                   notCommands>>

\* the editor's panel is closed: its pending messages go with it
CloseEditor ==
    /\ editorOpen
    /\ editorOpen' = FALSE
    /\ routerInbox' = <<>>
    /\ UNCHANGED <<active, providerRegistered, commands, executed, notCommands>>

\* vscode.postMessage({ command }) in the editor view
ViewPosts(command) ==
    /\ editorOpen
    /\ Len(routerInbox) + Len(executed) < MaxCommands
    /\ routerInbox' = Append(routerInbox, command)
    /\ UNCHANGED <<active, providerRegistered, commands, editorOpen, executed,
                   notCommands>>

\* the command a router handler passes to vscode.commands.executeCommand
RouterTarget(command) ==
    CASE command = "toggleView" -> ToggleViewId
      [] command = "showDependencyGraph" -> ShowDependencyGraph
      [] OTHER -> Undefined

\* vscode.commands.executeCommand(id): rejects for an id nobody registered
ExecuteCommand(id) ==
    [command |-> id,
     outcome |-> IF id \in commands THEN "executed" ELSE "command not found"]

\* WebviewMessageRouter.handle for the oldest pending message
RouterHandles ==
    /\ routerInbox # <<>>
    /\ routerInbox' = Tail(routerInbox)
    /\ executed' = IF RouterTarget(Head(routerInbox)) = Undefined
                   THEN executed
                   ELSE Append(executed, ExecuteCommand(RouterTarget(Head(routerInbox))))
    /\ UNCHANGED <<active, providerRegistered, commands, editorOpen, notCommands>>

CommandsNext ==
    \/ Activate
    \/ Deactivate
    \/ ResolveCustomTextEditor
    \/ CloseEditor
    \/ \E command \in ViewCommands : ViewPosts(command)
    \/ RouterHandles

(***************************************************************************)
(* DependencyService.findCircularDependencies                              *)
(***************************************************************************)
MaxLinks == 3

CycleIds == {"a", "b", "c"}
CycleOrder == <<"a", "b", "c">>

\* the node lists and link lists given to the function; a link may name an
\* id that is not a node
NodeLists ==
    {SelectSeq(CycleOrder, LAMBDA n : n \in S) : S \in SUBSET CycleIds}
    \cup {<<"c", "a">>, <<"b", "a">>}
LinkLists ==
    UNION {[1..n -> CycleIds \X CycleIds] : n \in 0..MaxLinks}

\* adjList.get(node) ?? []: the targets of node's links, in link order
RECURSIVE Neighbors(_, _)
Neighbors(ls, node) ==
    IF ls = <<>> THEN <<>>
    ELSE (IF Head(ls)[1] = node THEN <<Head(ls)[2]>> ELSE <<>>)
         \o Neighbors(Tail(ls), node)

\* path.indexOf(neighbor), counted from 1; 0 when absent
IndexOf(path, x) ==
    IF \E i \in 1..Len(path) : path[i] = x
    THEN CHOOSE i \in 1..Len(path) :
             path[i] = x /\ \A j \in 1..(i - 1) : path[j] # x
    ELSE 0

CycleStartAtRoot(path, neighbor) == 1

\* const cycleStart = path.indexOf(neighbor)
CycleStart(path, neighbor) == IndexOf(path, neighbor)

\* the state of the search: visited, recursionStack and circles
NewSearch == [visited |-> {}, recursionStack |-> {}, circles |-> <<>>]

\* dfs(node, path) and its loop over the neighbours; path already holds node
RECURSIVE Dfs(_, _, _, _), DfsLoop(_, _, _, _, _)
Dfs(ls, st, node, path) ==
    LET entered == [st EXCEPT !.visited = @ \cup {node},
                              !.recursionStack = @ \cup {node}]
        looped == DfsLoop(ls, entered, node, Append(path, node),
                          Neighbors(ls, node))
    IN [looped EXCEPT !.recursionStack = @ \ {node}]
DfsLoop(ls, st, node, path, neighbors) ==
    IF neighbors = <<>> THEN st
    ELSE LET neighbor == Head(neighbors)
             next ==
                 IF neighbor \notin st.visited
                 THEN Dfs(ls, st, neighbor, path)
                 ELSE IF neighbor \in st.recursionStack
                      /\ CycleStart(path, neighbor) # 0
                 THEN [st EXCEPT !.circles =
                          Append(@, Append(SubSeq(path, CycleStart(path, neighbor),
                                                  Len(path)), neighbor))]
                 ELSE st
         IN DfsLoop(ls, next, node, path, Tail(neighbors))

\* for (const node of graphData.nodes) if (!visited.has(node.id)) dfs(node.id, [])
RECURSIVE CheckAllNodes(_, _, _)
CheckAllNodes(ls, st, ns) ==
    IF ns = <<>> THEN st
    ELSE CheckAllNodes(ls,
                       IF Head(ns) \in st.visited THEN st
                       ELSE Dfs(ls, st, Head(ns), <<>>),
                       Tail(ns))

FindCircularDependencies(g) == CheckAllNodes(g.links, NewSearch, g.nodes).circles

CyclesIdle ==
    /\ graphData = [nodes |-> <<>>, links |-> <<>>]
    /\ circles = <<>>
    /\ cyclesStage = "idle"

CyclesInit ==
    /\ graphData \in [nodes : NodeLists, links : LinkLists]
    /\ circles = <<>>
    /\ cyclesStage = "given"

CallFindCircularDependencies ==
    /\ cyclesStage = "given"
    /\ circles' = FindCircularDependencies(graphData)
    /\ cyclesStage' = "returned"
    /\ UNCHANGED <<graphData, notCycles>>

CyclesNext == CallFindCircularDependencies

(***************************************************************************)
(* DependencyGraphPanel: createOrShow, update, the message handlers and    *)
(* dispose, with the builds and lookups as calls that finish in any order  *)
(***************************************************************************)
MaxPanels == 2
MaxJobs == 3

Panels == 1..MaxPanels
NoUri == "none"

\* the HTML values of a panel: nothing yet, the graph of a manifest, the
\* error page
NoHtml == [kind |-> "empty", uri |-> NoUri]
GraphHtml(uri) == [kind |-> "graph", uri |-> uri]
ErrorHtml == [kind |-> "error", uri |-> NoUri]

UpdateJob(p, uri) == [panel |-> p, kind |-> "update", uri |-> uri]
DetailsJob(p) == [panel |-> p, kind |-> "details", uri |-> NoUri]

LifecycleIdle ==
    /\ currentPanel = 0
    /\ panelCount = 0
    /\ packageJsonUri = [p \in Panels |-> NoUri]
    /\ html = [p \in Panels |-> NoHtml]
    /\ disposed = [p \in Panels |-> FALSE]
    /\ inflight = <<>>
    /\ lateWrites = <<>>
    /\ jobsStarted = 0

\* update(packageJsonUri) up to its await: this.packageJsonUri is assigned
\* and generateDependencyGraph is called
StartUpdate(p, uri) ==
    /\ jobsStarted < MaxJobs
    /\ packageJsonUri' = [packageJsonUri EXCEPT ![p] = uri]
    /\ inflight' = Append(inflight, UpdateJob(p, uri))
    /\ jobsStarted' = jobsStarted + 1

\* DependencyGraphPanel.createOrShow
CreateOrShow(uri) ==
    /\ IF currentPanel # 0
       THEN /\ StartUpdate(currentPanel, uri)
            /\ UNCHANGED <<currentPanel, panelCount>>
       ELSE /\ panelCount < MaxPanels
            /\ panelCount' = panelCount + 1
            /\ currentPanel' = panelCount + 1
            /\ StartUpdate(panelCount + 1, uri)
    /\ UNCHANGED <<html, disposed, lateWrites, notLifecycle>>

\* router.on('refresh'), and onDidChangeViewState with the panel visible:
\* update(this.packageJsonUri)
UpdateAgain ==
    /\ currentPanel # 0
    /\ StartUpdate(currentPanel, packageJsonUri[currentPanel])
    /\ UNCHANGED <<currentPanel, panelCount, html, disposed, lateWrites,
                   notLifecycle>>

\* router.on('getPackageDetails'): handleGetPackageDetails up to its await
StartDetails ==
    /\ currentPanel # 0
    /\ jobsStarted < MaxJobs
    /\ inflight' = Append(inflight, DetailsJob(currentPanel))
    /\ jobsStarted' = jobsStarted + 1
    /\ UNCHANGED <<currentPanel, panelCount, packageJsonUri, html, disposed,
                   lateWrites, notLifecycle>>

Without(seq, i) == SubSeq(seq, 1, i - 1) \o SubSeq(seq, i + 1, Len(seq))

\* what a call does with its panel's webview once its await has settled:
\* update assigns panel.webview.html (the graph, or the error page from the
\* catch block), handleGetPackageDetails posts a packageDetails message;
\* neither looks whether the panel has been disposed. An awaited build or
\* lookup settles, in any order.
Settles(i, ok) ==
    /\ i \in 1..Len(inflight)
    /\ LET job == inflight[i]
       IN /\ inflight' = Without(inflight, i)
          /\ IF disposed[job.panel]
             THEN /\ lateWrites' = Append(lateWrites, job)
                  /\ html' = html
             ELSE /\ lateWrites' = lateWrites
                  /\ html' = IF job.kind = "update"
                             THEN [html EXCEPT ![job.panel] =
                                      IF ok THEN GraphHtml(job.uri) ELSE ErrorHtml]
                             ELSE html
    /\ UNCHANGED <<currentPanel, panelCount, packageJsonUri, disposed,
                   jobsStarted, notLifecycle>>

\* the user closes the panel: onDidDispose runs dispose()
Dispose ==
    /\ currentPanel # 0
    /\ disposed' = [disposed EXCEPT ![currentPanel] = TRUE]
    /\ currentPanel' = 0
    /\ UNCHANGED <<panelCount, packageJsonUri, html, inflight, lateWrites,
                   jobsStarted, notLifecycle>>

LifecycleNext ==
    \/ \E uri \in Uris : CreateOrShow(uri)
    \/ UpdateAgain
    \/ StartDetails
    \/ \E i \in 1..MaxJobs, ok \in BOOLEAN : Settles(i, ok)
    \/ Dispose

(***************************************************************************)
(* dependencyGraph.js: nodeClicked and the packageDetails listener         *)
(***************************************************************************)
NoSelection == "none"
Loading == "loading"

InfoIdle ==
    /\ selectedName = NoSelection
    /\ infoShown = NoSelection
    /\ delivered = 0

\* nodeClicked: the node is selected, showPackageInfoLoading(d.name) runs and
\* getPackageDetails is posted, which starts the host's handler
NodeClicked(name) ==
    /\ HandlerStarts(name)
    /\ selectedName' = name
    /\ infoShown' = Loading
    /\ UNCHANGED <<localFiles, posted, delivered, notDetailsNorInfo>>

\* showPackageInfo(message.details, message.packageName) fills the content
\* element, whichever node is selected
ShowPackageInfo(message) == message.packageName

\* the view's message listener receives the next posted packageDetails
ViewReceivesDetails ==
    /\ delivered < Len(posted)
    /\ delivered' = delivered + 1
    /\ infoShown' = ShowPackageInfo(posted[delivered + 1])
    /\ UNCHANGED <<selectedName, notInfo>>

InfoNext ==
    \/ \E n \in DetailNames : NodeClicked(n)
    \/ \E i \in 1..MaxRequests : LocalLookupResolves(i)
    \/ \E i \in 1..MaxRequests, r \in Responses : RegistryResponds(i, r)
    \/ ViewReceivesDetails

\* the graph builder when no graph is asked for
GraphIdle ==
    /\ rootFile = [readable |-> FALSE, name |-> Undefined, version |-> Undefined,
                   dependencies |-> NoMap, devDependencies |-> NoMap]
    /\ maxDepth = 1
    /\ nodeModulesExists = FALSE
    /\ installed = [n \in Names |-> UnknownFile]
    /\ pc = "idle"
    /\ nodes = <<>>
    /\ links = <<>>
    /\ processedPackages = {}
    /\ task = [n \in Names |-> IdleTask]
    /\ expansions = [n \in Names |-> 0]
    /\ builds = 1
    /\ previous = [nodes |-> {}, links |-> {}]

Init == GraphInit /\ GraphViewInit /\ DetailsIdle /\ EditorIdle /\ JsonIdle /\ TabsIdle /\ ConfigIdle /\ CommandsIdle /\ CyclesIdle /\ LifecycleIdle /\ InfoIdle

InitDetails == GraphIdle /\ GraphViewInit /\ DetailsInit /\ EditorIdle /\ JsonIdle /\ TabsIdle /\ ConfigIdle /\ CommandsIdle /\ CyclesIdle /\ LifecycleIdle /\ InfoIdle

InitEditor == GraphIdle /\ GraphViewInit /\ DetailsIdle /\ EditorInit /\ JsonIdle /\ TabsIdle /\ ConfigIdle /\ CommandsIdle /\ CyclesIdle /\ LifecycleIdle /\ InfoIdle

InitJson == GraphIdle /\ GraphViewInit /\ DetailsIdle /\ EditorIdle /\ JsonInit /\ TabsIdle /\ ConfigIdle /\ CommandsIdle /\ CyclesIdle /\ LifecycleIdle /\ InfoIdle

InitTabs == GraphIdle /\ GraphViewInit /\ DetailsIdle /\ EditorIdle /\ JsonIdle /\ TabsIdle /\ ConfigIdle /\ CommandsIdle /\ CyclesIdle /\ LifecycleIdle /\ InfoIdle

InitPanel == PanelInit /\ GraphViewInit /\ DetailsIdle /\ EditorIdle /\ JsonIdle /\ TabsIdle /\ CommandsIdle /\ CyclesIdle /\ LifecycleIdle /\ InfoIdle


InitCommands == GraphIdle /\ GraphViewInit /\ DetailsIdle /\ EditorIdle /\ JsonIdle /\ TabsIdle /\ ConfigIdle /\ CommandsIdle /\ CyclesIdle /\ LifecycleIdle /\ InfoIdle

InitCycles == GraphIdle /\ GraphViewInit /\ DetailsIdle /\ EditorIdle /\ JsonIdle /\ TabsIdle /\ ConfigIdle /\ CommandsIdle /\ CyclesInit /\ LifecycleIdle /\ InfoIdle

InitLifecycle == GraphIdle /\ GraphViewInit /\ DetailsIdle /\ EditorIdle /\ JsonIdle /\ TabsIdle /\ ConfigIdle /\ CommandsIdle /\ CyclesIdle /\ LifecycleIdle /\ InfoIdle

InitInfo == GraphIdle /\ GraphViewInit /\ DetailsInit /\ EditorIdle /\ JsonIdle /\ TabsIdle /\ ConfigIdle /\ CommandsIdle /\ CyclesIdle /\ LifecycleIdle /\ InfoIdle

Next == GraphNext

NextRefresh == GraphNext \/ Refresh

\* one build of one project
Spec == Init /\ [][Next]_vars

\* the builds of a panel that is refreshed
SpecRefresh == Init /\ [][NextRefresh]_vars

\* one build and the type filter of the view that shows it
NextFilter == GraphNext \/ \E type \in TypeOptions : FilterDependencies(type)
SpecFilter == Init /\ [][NextFilter]_vars

\* the detail lookups of one graph panel
SpecDetails == InitDetails /\ [][DetailsNext]_vars

\* the same, where every file check settles and every registry request
\* settles (axios is given a timeout of 10 seconds)
SpecDetailsFair ==
    /\ SpecDetails
    /\ WF_vars(\E i \in 1..MaxRequests : LocalLookupResolves(i))
    /\ WF_vars(\E i \in 1..MaxRequests, r \in Responses : RegistryResponds(i, r))

\* one custom editor of one package.json
SpecEditor == InitEditor /\ [][EditorNext]_vars

\* one manifest object written and read back
SpecJson == InitJson /\ [][JsonNext]_vars

\* the editor tabs of a window and the toggle command
SpecTabs == InitTabs /\ [][TabsNext]_vars

\* the builds of a graph panel under the user's depth setting
SpecPanel == InitPanel /\ [][PanelNext]_vars

\* activation, the command registry and the editor view's command messages
SpecCommands == InitCommands /\ [][CommandsNext]_vars

\* findCircularDependencies applied to a graph
SpecCycles == InitCycles /\ [][CyclesNext]_vars

\* the graph panels, their updates and lookups, and disposal
SpecLifecycle == InitLifecycle /\ [][LifecycleNext]_vars

\* the graph view's node clicks and the details the host posts for them
SpecInfo == InitInfo /\ [][InfoNext]_vars

(***************************************************************************)
(* Properties of the graph builder.                                        *)
(***************************************************************************)
Ids(ns) == {n.id : n \in ns}
Pairs(ls) == {<<l.source, l.target>> : l \in ls}
NodeIds == Ids(NodeSet)
LinkPairs == Pairs(LinkSet)
DirectNames == rootFile.dependencies.names \cup rootFile.devDependencies.names
Declares(p, q) ==
    installed[p].state = "manifest" /\ q \in installed[p].dependencies.names
NodesWithId(id) == {i \in 1..Len(nodes) : nodes[i].id = id}

\* C1: for fixed files and a fixed maxDepth, every build returns the same
\* node ids and the same (source, target) links as the build before it,
\* whatever the order in which the file checks and reads completed.
C1_SameMembership ==
    (pc = "done" /\ builds > 1) =>
        /\ NodeIds = Ids(previous.nodes)
        /\ LinkPairs = Pairs(previous.links)

\* C2: a manifest declaring the single dependency A, with no copy of A's
\* manifest under node_modules (node_modules itself may be missing), yields
\* exactly the root and A, the one link root -> A, and no expansion of A.
C2_TwoNodesOneLink ==
    \A A \in Names :
        ( /\ pc = "done"
          /\ rootFile.dependencies.names = {A}
          /\ rootFile.devDependencies.names = {}
          /\ (~nodeModulesExists \/ installed[A].state = "absent") )
        => /\ Len(nodes) = 2
           /\ NodeIds = {RootNodeId, A}
           /\ Len(links) = 1
           /\ LinkPairs = {<<RootNodeId, A>>}
           /\ expansions[A] = 0

\* C3: two distinct direct dependencies A and B whose local manifests both
\* declare C (maxDepth >= 2) give exactly one node with id C and both links
\* A -> C and B -> C.
C3_SharedNodeOnce ==
    \A A \in Names, B \in Names, C \in Names :
        ( /\ pc = "done"
          /\ maxDepth >= 2
          /\ A # B
          /\ {A, B} \subseteq DirectNames
          /\ Declares(A, C)
          /\ Declares(B, C) )
        => /\ Cardinality(NodesWithId(C)) = 1
           /\ {<<A, C>>, <<B, C>>} \subseteq LinkPairs

\* ids reachable from the root id along at most k links
RECURSIVE ReachableWithin(_)
ReachableWithin(k) ==
    IF k = 0 THEN {RootNodeId}
    ELSE LET R == ReachableWithin(k - 1)
         IN R \cup {p[2] : p \in {q \in LinkPairs : q[1] \in R}}

\* C4: every non-root node was added by a traversal call of depth at most
\* maxDepth and is reachable from the root along at most maxDepth links; with
\* maxDepth = 1 only the root and the directly declared packages are nodes.
C4_DepthCap ==
    /\ \A i \in 1..Len(nodes) :
          nodes[i].type # "root" =>
              /\ task[nodes[i].id].depth \in 1..maxDepth
              /\ nodes[i].id \in ReachableWithin(maxDepth)
    /\ maxDepth = 1 => NodeIds \subseteq {RootNodeId} \cup DirectNames

C4_Witness ==
    /\ pc = "done"
    /\ maxDepth = 1
    /\ \E p \in DirectNames, q \in Names :
          Declares(p, q) /\ q \notin NodeIds /\ Len(nodes) = 2

\* C5: a manifest with no (or empty) dependencies and devDependencies yields
\* exactly one node, of type root, and no link, with or without node_modules.
C5_RootOnly ==
    ( /\ pc = "done"
      /\ rootFile.dependencies.names = {}
      /\ rootFile.devDependencies.names = {} )
    => /\ Len(nodes) = 1
       /\ nodes[1].type = "root"
       /\ links = <<>>

C5_Witness ==
    /\ pc = "done"
    /\ nodeModulesExists
    /\ rootFile.dependencies = MapOf({})
    /\ rootFile.devDependencies = NoMap
    /\ Len(nodes) = 1

\* A measure of the work a build has left: the names not yet registered, the
\* pending awaits of the registered callbacks, the position of the builder.
Count(stage) == Cardinality({n \in Names : task[n].stage = stage})
PcWeight == CASE pc = "readRoot" -> 3
              [] pc = "checkNodeModules" -> 2
              [] pc = "awaitAll" -> 1
              [] OTHER -> 0
Variant ==
    3 * Cardinality(Names \ processedPackages)
      + 2 * Count("exists") + Count("read") + PcWeight

Finished == pc \in {"done", "rejected"}

\* C6: a build terminates, cyclic and self-dependent packages included: a
\* build that has not returned can always take a step, every step lowers the
\* measure of the work left, and no name's nested manifest is processed twice.
C6_TerminatesExpandsOnce ==
    /\ [](\A n \in Names : expansions[n] <= 1)
    /\ [](~Finished => ENABLED GraphNext)
    /\ [][Variant' < Variant]_vars

C6_Witness ==
    /\ pc = "done"
    /\ \E p \in Names, q \in Names :
          /\ p # q
          /\ Declares(p, q) /\ Declares(q, p)
          /\ expansions[p] = 1 /\ expansions[q] = 1
          /\ {<<p, q>>, <<q, p>>} \subseteq LinkPairs

\* C7: a nested manifest of P that fails to read or parse does not reject
\* the build; P keeps its node and the link into it and contributes nothing
\* nested; the failed read leaves the build where an absent manifest leaves
\* it, so every other package is processed the same way.
C7_ReadFailureSwallowed ==
    /\ [](\A P \in Names :
            (installed[P].state = "unreadable" /\ task[P].stage = "done") =>
                /\ pc # "rejected"
                /\ NodesWithId(P) # {}
                /\ \E l \in LinkSet : l.target = P
                /\ expansions[P] = 0
                /\ \A l \in LinkSet : l.source = P => l.type # "nestedDependency")
    /\ [][\A P \in Names :
            (installed[P].state = "unreadable" /\ task[P].stage = "read"
               /\ task'[P].stage = "done") =>
                /\ pc' = pc
                /\ nodes' = nodes /\ links' = links
                /\ processedPackages' = processedPackages
                /\ task' = [task EXCEPT ![P].stage = "done"]]_vars

C7_Witness ==
    /\ pc = "done"
    /\ \E P \in Names, Q \in Names :
          /\ installed[P].state = "unreadable" /\ task[P].stage = "done"
          /\ expansions[Q] = 1
          /\ Len(nodes) >= 4

(***************************************************************************)
(* Properties of the registry client and of the panel's detail lookup.     *)
(***************************************************************************)
Settled(i) == i \in 1..Len(requests) /\ requests[i].stage = "settled"
AskedRegistry(i) == Settled(i) /\ requests[i].response.kind # "none"
NotFound(i) ==
    AskedRegistry(i) /\ requests[i].response.kind = "axiosError"
    /\ requests[i].response.status = 404
OtherFailure(i) ==
    AskedRegistry(i) /\ ~NotFound(i)
    /\ (requests[i].response.kind = "axiosError"
        \/ TransformThrows(requests[i].response.body))
NotFoundMessage(i) == "Package not found: " \o requests[i].packageName

\* C8: getPackageDetails returns no detail record when the registry request
\* fails; a 404 response raises an NpmRegistryError with the message
\* 'Package not found: <name>', every other failure raises an
\* NpmRegistryError with another message, so a not-found error and an error
\* of another failure never have the same content.
C8_NotFoundDistinguishable ==
    /\ \A i \in 1..Len(requests) :
        /\ (NotFound(i) \/ OtherFailure(i)) =>
               (~requests[i].outcome.ok
                /\ requests[i].outcome.name = "NpmRegistryError")
        /\ NotFound(i) => requests[i].outcome.message = NotFoundMessage(i)
        /\ OtherFailure(i) => requests[i].outcome.message # NotFoundMessage(i)
    /\ \A i, j \in 1..Len(requests) :
        (NotFound(i) /\ OtherFailure(j)) =>
            requests[i].outcome # requests[j].outcome

\* a 404 and a timeout have both been answered for the same package
C8_Witness ==
    \E i, j \in 1..Len(requests) :
        /\ requests[i].packageName = requests[j].packageName
        /\ NotFound(i)
        /\ OtherFailure(j)
        /\ requests[j].response.message = "timeout of 10000ms exceeded"
        /\ ~requests[i].outcome.ok /\ ~requests[j].outcome.ok

\* C9: for a package without a local manifest, the packageDetails record the
\* panel posts after a registry 404 differs from the record it posts after
\* any other registry failure.
C9_PostedRecordsDiffer ==
    \A i, j \in 1..Len(requests) :
        (/\ requests[i].packageName = requests[j].packageName
         /\ ~HasLocalDetails(requests[i].packageName)
         /\ NotFound(i)
         /\ OtherFailure(j))
        => requests[i].message.details # requests[j].message.details

(***************************************************************************)
(* Properties of the custom editor.                                        *)
(***************************************************************************)
Posts(m) == toView' = Append(toView, m)

\* C10: the manifest carried by a packageJson message is the parse of the
\* document's current text: when a packageJson message is posted and no
\* later change of the document is still waiting for its message, the
\* message's manifest equals JSON.parse of the document's text, also where
\* the document has not been saved since the change.
C10_MessageIsDocument ==
    [][\A data \in JsonValues :
          (Posts(PackageJsonMessage(data)) /\ pendingSends' = 0) =>
              (ParseOk(docText') /\ SameJson(data, Parse(docText')))]_vars

\* C11: when an updatePackageJson message with payload P has been handled,
\* the document's whole text is JSON.stringify(P, null, 2): nothing of the
\* text before the edit remains, whatever it was and however long.
C11_DocumentIsPayload ==
    [][(toHost # <<>> /\ toHost' = Tail(toHost)) =>
           docText' = Stringify(Head(toHost))]_vars

\* the only event was a form change, its payload has been handled, and the
\* text it replaced (the file's, with a final line break) was longer
C11_Witness ==
    /\ events = 1
    /\ toHost = <<>>
    /\ viewPackageJson.type = "object"
    /\ diskFile.exists
    /\ ParseOk(diskFile.content)
    /\ ~SameJson(viewPackageJson, Parse(diskFile.content))
    /\ docText = Stringify(viewPackageJson)
    /\ Len(diskFile.content) > Len(docText)

\* C12: round trip: for every manifest object whose fields are strings,
\* lists of strings or maps from string to string, JSON.parse of the text
\* JSON.stringify(M, null, 2) wrote succeeds and yields a value deep-equal
\* to M.
C12_RoundTrip ==
    jsonStage = "parsed" => (reparsed.ok /\ DeepEqual(reparsed.value, manifest))

\* a manifest with a quote in its name, two keywords and two dependencies,
\* one of them under a key with a quote, has been written and read back
C12_Witness ==
    /\ jsonStage = "parsed"
    /\ Len(manifest.members) = 3
    /\ manifest.members[1].value.chars = <<"\"">>
    /\ Len(manifest.members[2].value.items) = 2
    /\ Len(manifest.members[3].value.members) = 2
    /\ manifest.members[3].value.members[2].value.chars = <<"LF", "\\">>
    /\ Len(written) > 40

FileUnusable == ~diskFile.exists \/ ~ParseOk(diskFile.content)
Last(seq) == seq[Len(seq)]

C14_EditingBlocked ==
    [][viewError => Len(toHost') <= Len(toHost)]_vars

PostedFor(n) == {k \in 1..Len(posted) : posted[k].packageName = n}
SettledFor(n) == {i \in 1..Len(requests) : Settled(i) /\ requests[i].packageName = n}

\* C15: every getPackageDetails message for a name n is answered by exactly
\* one packageDetails message carrying packageName = n: at every moment the
\* messages posted for n are as many as the handled requests for n, each
\* request's answer names its package, and again and again every request
\* received so far has been answered (an answered request stays answered),
\* from the local manifest, the registry or a failure.
C15_OneAnswerPerRequest ==
    /\ [](\A n \in DetailNames :
             Cardinality(PostedFor(n)) = Cardinality(SettledFor(n)))
    /\ [](\A k \in 1..Len(posted) : posted[k].command = "packageDetails")
    /\ [](\A i \in 1..Len(requests) :
             Settled(i) => (/\ requests[i].message.command = "packageDetails"
                            /\ requests[i].message.packageName = requests[i].packageName))
    /\ []<>(\A i \in 1..Len(requests) : Settled(i))

\* all requests have been answered, one by the registry's details and one
\* by the record of a failure
C15_Witness ==
    /\ Len(requests) = MaxRequests
    /\ \A i \in 1..Len(requests) : Settled(i)
    /\ \E i, j \in 1..Len(requests) :
        /\ requests[i].message.details.source = "npm"
        /\ requests[j].message.details.source = "error"
    /\ Len(posted) = MaxRequests

(***************************************************************************)
(* Properties of the graph view.                                           *)
(***************************************************************************)
\* the link type an option of the type filter stands for
ClassOf(option) == IF option = "dependencies" THEN "dependency" ELSE "devDependency"
LinksOfClass(class) == {k \in 1..Len(links) : links[k].type = class}
ConnectedBy(ks) ==
    {i \in 1..Len(nodes) :
        nodes[i].type = "root"
        \/ \E k \in ks : links[k].source = nodes[i].id \/ links[k].target = nodes[i].id}

\* C16: with 'Dependencies' or 'Dev Dependencies' chosen in the type filter,
\* the links of that class and the nodes they connect, with the root, are
\* fully visible and every other link and node is dimmed; with 'All'
\* everything is fully visible.
C16_TypeFilterShowsClass ==
    pc = "done" =>
        IF selectedType = "all"
        THEN /\ \A k \in 1..Len(links) : Opacity(linkOpacity, k) = 100
             /\ \A i \in 1..Len(nodes) : Opacity(nodeOpacity, i) = 100
        ELSE LET shown == LinksOfClass(ClassOf(selectedType))
             IN /\ \A k \in 1..Len(links) :
                     Opacity(linkOpacity, k) = 100 <=> k \in shown
                /\ \A i \in 1..Len(nodes) :
                     Opacity(nodeOpacity, i) = 100 <=> i \in ConnectedBy(shown)

(***************************************************************************)
(* Properties of the toggle command.                                       *)
(***************************************************************************)
\* C17: the toggle command acts on the file of the active editor: invoked
\* while a package.json is active in the visual editor (from the editor's
\* own button, the palette or the title menu, with any other tabs open) it
\* leaves that same file active in the text editor, and invoked while it is
\* active in the text editor it leaves that file active in the visual one.
C17_ToggleActsOnActiveFile ==
    [][lastCommand' = "toggle" =>
           (/\ activeGroup' = activeGroup
            /\ tabGroups'[activeGroup'].tabs[tabGroups'[activeGroup'].active]
                  = Tab(ActiveTab.uri, Other(ActiveTab.kind)))]_vars

(***************************************************************************)
(* Properties of the graph panel's options.                                *)
(***************************************************************************)
\* C18: every build of the graph panel uses the user's maxDependencyDepth
\* setting (limited to 1..10) as its depth cap: when a build starts, the
\* maxDepth it is given is the setting's value at that moment.
C18_DepthIsSetting ==
    pc = "readRoot" => maxDepth = GetMaxDependencyDepth


\* the root map a link from the root to target can have come from
FromRootMap(link) ==
    \/ /\ link.type = "dependency"
       /\ link.target \in rootFile.dependencies.names
    \/ /\ link.type = "devDependency"
       /\ IncludeDev
       /\ link.target \in rootFile.devDependencies.names

\* C19: in every returned graph, a link whose source is the root node's id
\* has the type of the root map that declares its target (dependency or
\* devDependency), and a link whose source is any other id has the type
\* nestedDependency.
C19_LinkTypedBySource ==
    pc = "done" =>
        \A i \in 1..Len(links) :
            IF links[i].source = RootNodeId
            THEN FromRootMap(links[i])
            ELSE links[i].type = "nestedDependency"

\* C20: in every returned graph no two nodes have the same id.
C20_NodeIdsDistinct ==
    pc = "done" =>
        \A i \in 1..Len(nodes), j \in 1..Len(nodes) :
            nodes[i].id = nodes[j].id => i = j

\* C21: while the extension is active the three commands are registered, and
\* every toggleView or showDependencyGraph message the router handles
\* resolves to a registered command.
C21_CommandsRegistered ==
    /\ [](active => CommandIds \subseteq commands)
    /\ [][Len(executed') > Len(executed) =>
              executed'[Len(executed')].outcome = "executed"]_vars

C21_Witness ==
    /\ Len(executed) = 2
    /\ executed[1] = [command |-> ToggleViewId, outcome |-> "executed"]
    /\ executed[2] = [command |-> ShowDependencyGraph, outcome |-> "executed"]

\* C22: readPackageJson accepts only content that is a JSON object: every
\* packageJson message posted to the view carries an object, never null or
\* an array.
C22_OnlyObjectsDelivered ==
    \A i \in 1..Len(toView) :
        toView[i].command = "packageJson" => toView[i].packageJson.type = "object"

\* ids reachable from the ids of S along at most k links
RECURSIVE ReachableFrom(_, _)
ReachableFrom(S, k) ==
    IF k = 0 THEN S
    ELSE LET R == ReachableFrom(S, k - 1)
         IN R \cup {p[2] : p \in {q \in LinkPairs : q[1] \in R}}

\* link i lies on a directed cycle of the link relation
ClosesCycle(i) ==
    links[i].source \in ReachableFrom({links[i].target}, Len(links))

\* link i is an ordinary link to a package that another link reached too
SharedLink(i) ==
    /\ ~ClosesCycle(i)
    /\ \E j \in 1..Len(links) :
           j # i /\ links[j].target = links[i].target

\* what the graph data tells the view about a link besides its two ends
\* (the view renders class "link <type>" and nothing else)
LinkMark(link) == link.type

\* C23: in the graph data produced for the view, a link that closes a
\* dependency cycle is marked differently from an ordinary link to a shared
\* package (stated for graphs whose node ids are distinct).
C23_CycleLinkMarked ==
    (pc = "done" /\ Cardinality(NodeIds) = Len(nodes)) =>
        \A i \in 1..Len(links), j \in 1..Len(links) :
            (ClosesCycle(i) /\ SharedLink(j)) => LinkMark(links[i]) # LinkMark(links[j])

GivenPairs == {graphData.links[i] : i \in 1..Len(graphData.links)}
GivenNodeIds == {graphData.nodes[i] : i \in 1..Len(graphData.nodes)}

\* ids reachable from the ids of S along at most k links of the given graph
RECURSIVE GivenReach(_, _)
GivenReach(S, k) ==
    IF k = 0 THEN S
    ELSE LET R == GivenReach(S, k - 1)
         IN R \cup {p[2] : p \in {q \in GivenPairs : q[1] \in R}}

\* the given graph has a directed cycle reachable from one of its nodes
HasReachableCycle ==
    \E m \in GivenReach(GivenNodeIds, Len(graphData.links)) :
        \E p \in GivenPairs :
            p[1] = m /\ m \in GivenReach({p[2]}, Len(graphData.links))

GenuineCycle(chain) ==
    /\ Len(chain) >= 2
    /\ chain[1] = chain[Len(chain)]
    /\ \A i \in 1..(Len(chain) - 1) : <<chain[i], chain[i + 1]>> \in GivenPairs

\* C24: findCircularDependencies returns a non-empty list exactly when the
\* link relation has a directed cycle reachable from one of the graph's
\* nodes, and every chain it returns is a genuine cycle of links.
C24_CyclesFound ==
    cyclesStage = "returned" =>
        /\ (circles # <<>>) <=> HasReachableCycle
        /\ \A i \in 1..Len(circles) : GenuineCycle(circles[i])

C24_Witness ==
    /\ cyclesStage = "returned"
    /\ graphData.nodes = <<"a">>
    /\ graphData.links = << <<"a", "b">>, <<"b", "c">>, <<"c", "b">> >>
    /\ circles = << <<"b", "c", "b">> >>

HasNodeTyped(n, type) ==
    \E i \in 1..Len(nodes) : nodes[i].id = n /\ nodes[i].type = type

\* C25: in every returned graph a package declared in the root's dependencies
\* has a node of type dependency, a package declared only in the root's
\* devDependencies has a node of type devDependency, and no package declared
\* directly by the root has a node of type nestedDependency.
C25_DirectTypes ==
    pc = "done" =>
        \A n \in Names :
            /\ n \in rootFile.dependencies.names => HasNodeTyped(n, "dependency")
            /\ n \in rootFile.devDependencies.names \ rootFile.dependencies.names
                   => HasNodeTyped(n, "devDependency")
            /\ n \in DirectNames => ~HasNodeTyped(n, "nestedDependency")

\* C26: in every returned graph the source and the target of every link are
\* ids of nodes of the returned node list.
C26_NoDanglingLink ==
    pc = "done" =>
        \A i \in 1..Len(links) :
            links[i].source \in NodeIds /\ links[i].target \in NodeIds

\* a returned graph with a link pushed for an already processed package
C26_Witness ==
    /\ pc = "done"
    /\ Len(links) > Len(nodes)
    /\ \E i \in 1..Len(links) : links[i].type = "nestedDependency"

\* every message in both directions has been delivered and handled
EditorQuiet == toHost = <<>> /\ toView = <<>> /\ pendingSends = 0

\* C27: no edit is lost: once the user has changed both fields of a manifest
\* object through the form (and typed nothing in a text editor since) and
\* every message has been delivered, the document's text holds the value
\* last given to each field.
C27_NoEditLost ==
    ( /\ EditorQuiet
      /\ viewPackageJson.type = "object"
      /\ \A key \in DOMAIN typed : typed[key] # Undefined ) =>
        /\ ParseOk(docText)
        /\ \A key \in DOMAIN typed : Get(Parse(docText), key) = typed[key]

UpdatesInFlight(p) ==
    \E i \in 1..Len(inflight) : inflight[i].kind = "update" /\ inflight[i].panel = p

\* C28: once every update of the open panel has finished, the graph its HTML
\* shows is the graph of the panel's current packageJsonUri, whichever build
\* finished first.
C28_ShowsLatestManifest ==
    \A p \in Panels :
        ( /\ p = currentPanel
          /\ ~UpdatesInFlight(p)
          /\ html[p].kind = "graph" ) => html[p].uri = packageJsonUri[p]

\* C30: no call that was in flight when its panel was disposed writes to that
\* panel's webview, and currentPanel, once undefined, is set again only by a
\* createOrShow that creates a panel.
C30_NoWriteAfterDispose ==
    /\ [](lateWrites = <<>>)
    /\ [][(currentPanel = 0 /\ currentPanel' # 0) =>
              panelCount' = panelCount + 1]_vars

\* C29: the info panel shows the loading state or the details of the node
\* selected last: a response for an earlier selection never replaces them.
C29_ShowsSelectedNode ==
    selectedName # NoSelection => infoShown \in {Loading, selectedName}
===============================================================================
